---------------------------- MODULE Spec2Model ----------------------------
(***************************************************************************)
(* Molecular dynamics on the unit sphere (davis.c): the constrained        *)
(* velocity-Verlet integrator (dvs_advance, dvs_correct), the two-body     *)
(* kernel (dvs_calc_force), the cell grid (Cells_new, Cells_clear,         *)
(* dvs_populate_cells), the two force sweeps (dvs_calc_forces,             *)
(* dvs_calc_brute_forces) and the array utilities (dvs_copy_particles,     *)
(* dvs_collect_forces).                                                    *)
(*                                                                         *)
(* A C double is modelled as a binary floating-point number of Prec        *)
(* significant bits whose smallest step is 2^-FracBits: the integer n      *)
(* stands for the value n / 2^FracBits, and every arithmetic operation     *)
(* rounds its exact result to the nearest representable value, ties to     *)
(* even, as IEEE 754 does.  The sticky inexact status flag of the          *)
(* floating-point environment is the variable rounded.                     *)
(***************************************************************************)
EXTENDS Integers, Naturals, Sequences, FiniteSets, TLC

\* Number of significant bits of the modelled double (53 in the C build).
Prec == 5
\* Number of fractional bits: the smallest step of a value is 2^-FracBits.
FracBits == 6
\* Number of particles of every array (nparticles).
NumParticles == 4
\* Number of partition buffers besides the authoritative array.
NumParts == 2
\* Most force sweeps recorded for one array before its accelerations are reset.
MaxCalls == 2

Pow2(k) == 2 ^ k

\* The integer that stands for 1.0.
One == Pow2(FracBits)

Abs(n) == IF n < 0 THEN -n ELSE n
Sgn(n) == IF n < 0 THEN -1 ELSE 1
Max2(a, b) == IF a > b THEN a ELSE b
Min2(a, b) == IF a < b THEN a ELSE b

\* Number of bits of n >= 0 (n below 2^30): the least k with n < 2^k.
BitLen(n) == CHOOSE k \in 0 .. 30 : n < Pow2(k)

\* N / D (N >= 0, D > 0) rounded to the nearest integer, ties to even.
RoundDivEven(N, D) ==
  LET q == N \div D
      r == N % D
  IN  IF 2 * r < D THEN q
      ELSE IF 2 * r > D THEN q + 1
      ELSE IF q % 2 = 0 THEN q ELSE q + 1

\* The rational num / den (den > 0), in units, rounded to the format.
RndQ(num, den) ==
  LET A == Abs(num)
      e == Max2(0, BitLen(A \div den) - Prec)
  IN  Sgn(num) * RoundDivEven(A, den * Pow2(e)) * Pow2(e)

\* Whether the rational num / den (den > 0) is not representable.
InxQ(num, den) == RndQ(num, den) * den # num

FAdd(a, b) == RndQ(a + b, 1)
FSub(a, b) == RndQ(a - b, 1)
FMul(a, b) == RndQ(a * b, One)
\* b # 0 (a division by zero is kept out by the callers' guards).
FDiv(a, b) == RndQ(Sgn(b) * a * One, Abs(b))
AddX(a, b) == InxQ(a + b, 1)
SubX(a, b) == InxQ(a - b, 1)
MulX(a, b) == InxQ(a * b, One)
DivX(a, b) == InxQ(Sgn(b) * a * One, Abs(b))

\* floor(sqrt(M)) for M >= 0, by bisection on lo <= sqrt(M) < hi.
RECURSIVE SqrtBetween(_, _, _)
SqrtBetween(M, lo, hi) ==
  IF hi - lo <= 1 THEN lo
  ELSE LET mid == (lo + hi) \div 2
       IN  IF mid * mid <= M THEN SqrtBetween(M, mid, hi)
           ELSE SqrtBetween(M, lo, mid)

ISqrt(M) == SqrtBetween(M, 0, Pow2((BitLen(M) + 1) \div 2) + 1)

\* sqrt(a) for a >= 0, correctly rounded.
FSqrt(a) ==
  LET M == a * One
      f == ISqrt(M)
      e == Max2(0, BitLen(f) - Prec)
      g == Pow2(e)
      c == (f \div g) * g
  IN  IF e = 0
      THEN IF 4 * M < (2 * c + 1) * (2 * c + 1) THEN c ELSE c + 1
      ELSE LET mid == c + g \div 2
           IN  IF M < mid * mid THEN c
               ELSE IF M > mid * mid THEN c + g
               ELSE IF (c \div g) % 2 = 0 THEN c ELSE c + g

SqrtX(a) == FSqrt(a) * FSqrt(a) # a * One

\* floor of a value, as an integer (not in units).
Floor(a) == a \div One


-----------------------------------------------------------------------------
(* Vectors (vec of davis.h): componentwise arithmetic on three doubles.    *)

Vec(x, y, z) == [x |-> x, y |-> y, z |-> z]
VEC_ZERO == Vec(0, 0, 0)

vec_add(u, v) == Vec(FAdd(u.x, v.x), FAdd(u.y, v.y), FAdd(u.z, v.z))
vec_sub(u, v) == Vec(FSub(u.x, v.x), FSub(u.y, v.y), FSub(u.z, v.z))
vec_sclr(s, v) == Vec(FMul(s, v.x), FMul(s, v.y), FMul(s, v.z))
vec_dot(u, v) ==
  FAdd(FAdd(FMul(u.x, v.x), FMul(u.y, v.y)), FMul(u.z, v.z))
vec_magnitude2(v) == vec_dot(v, v)

\* Whether the operation rounds one of its results.
vec_addX(u, v) == AddX(u.x, v.x) \/ AddX(u.y, v.y) \/ AddX(u.z, v.z)
vec_subX(u, v) == SubX(u.x, v.x) \/ SubX(u.y, v.y) \/ SubX(u.z, v.z)
vec_sclrX(s, v) == MulX(s, v.x) \/ MulX(s, v.y) \/ MulX(s, v.z)
vec_dotX(u, v) ==
  \/ MulX(u.x, v.x) \/ MulX(u.y, v.y) \/ MulX(u.z, v.z)
  \/ AddX(FMul(u.x, v.x), FMul(u.y, v.y))
  \/ AddX(FAdd(FMul(u.x, v.x), FMul(u.y, v.y)), FMul(u.z, v.z))

\* Exact (unrounded) integer arithmetic on stored values, for the properties.
Dot(u, v) == u.x * v.x + u.y * v.y + u.z * v.z
VSum(u, v) == Vec(u.x + v.x, u.y + v.y, u.z + v.z)

-----------------------------------------------------------------------------
(* Particles, arrays and statistics.                                       *)

PIdx == 0 .. NumParticles - 1

Particle(r, v, a, next) == [r |-> r, v |-> v, a |-> a, next |-> next]

ZeroStats == [ww_counter |-> 0, real_ww_counter |-> 0, E_pot |-> 0]

-----------------------------------------------------------------------------
(* dvs_calc_force: the two-body kernel.  The result holds the two          *)
(* particles and the statistics after the call, x: whether an operation    *)
(* rounded, undef: whether the call divided by zero (coincident            *)
(* particles, which callers must not pass).                                *)

\* The kernel's cutoff test.
WithinCutoff(r2, cutoff2) == r2 < cutoff2

\* A kernel that adds the force to both particles.
Reaction_same(qa, force) == vec_add(qa, force)

\* What the kernel does to q.a with the force it added to p.a.
Reaction(qa, force) == vec_sub(qa, force)

\* The steps of the kernel, one after the other: each takes the values
\* computed so far (e) and adds its own; x collects whether a step that
\* evaluates the force or the energy of the pair rounded, xa whether an
\* addition to an acceleration or to E_pot did.
KernelGeom(p, q, cutoff) ==
  [dr |-> vec_sub(p.r, q.r),
   cutoff2 |-> FMul(cutoff, cutoff),
   x |-> vec_subX(p.r, q.r) \/ MulX(cutoff, cutoff)]

KernelDist(e) ==
  [x |-> e.x \/ vec_dotX(e.dr, e.dr),
   r2 |-> vec_magnitude2(e.dr)] @@ e

KernelRoot(e) ==
  [x |-> e.x \/ SqrtX(e.r2) \/ DivX(One, e.r2) \/ DivX(One, e.cutoff2),
   r |-> FSqrt(e.r2),
   inv_r2 |-> FDiv(One, e.r2),
   inv_c2 |-> FDiv(One, e.cutoff2)] @@ e

KernelMag(e, cutoff) ==
  [x |-> \/ e.x \/ SubX(e.inv_r2, e.inv_c2) \/ DivX(One, e.r)
         \/ DivX(e.r, e.cutoff2) \/ DivX(2 * One, cutoff),
   force_mag |-> FSub(e.inv_r2, e.inv_c2),
   e1 |-> FDiv(One, e.r),
   e2 |-> FDiv(e.r, e.cutoff2),
   e3 |-> FDiv(2 * One, cutoff)] @@ e

KernelScale(e) ==
  [x |-> e.x \/ DivX(e.force_mag, e.r) \/ AddX(e.e1, e.e2),
   s |-> FDiv(e.force_mag, e.r),
   e12 |-> FAdd(e.e1, e.e2)] @@ e

KernelCoulomb(e, p, q) ==
  [x |-> \/ e.x \/ vec_sclrX(e.s, e.dr) \/ SubX(e.e12, e.e3)
         \/ vec_subX(p.v, q.v),
   coulomb |-> vec_sclr(e.s, e.dr),
   de |-> FSub(e.e12, e.e3),
   dv |-> vec_sub(p.v, q.v)] @@ e

KernelDamping(e, gamma) ==
  [x |-> e.x \/ vec_sclrX(-gamma, e.dv),
   damping |-> vec_sclr(-gamma, e.dv)] @@ e

KernelForce(e) ==
  [x |-> e.x \/ vec_addX(e.coulomb, e.damping),
   force |-> vec_add(e.coulomb, e.damping)] @@ e

KernelApply(e, p, q, stats) ==
  [x |-> e.x,
   p |-> [p EXCEPT !.a = vec_add(p.a, e.force)],
   q |-> [q EXCEPT !.a = Reaction(q.a, e.force)],
   stats |-> [stats EXCEPT !.ww_counter = @ + 1,
                           !.real_ww_counter = @ + 1,
                           !.E_pot = FAdd(stats.E_pot, e.de)],
   xa |-> \/ vec_addX(p.a, e.force) \/ vec_subX(q.a, e.force)
          \/ AddX(stats.E_pot, e.de),
   undef |-> FALSE]

KernelSkip(e, p, q, stats, undef) ==
  [p |-> p, q |-> q,
   stats |-> [stats EXCEPT !.ww_counter = @ + 1],
   x |-> e.x, xa |-> FALSE, undef |-> undef]

KernelBranch(e, p, q, cutoff, gamma, stats) ==
  IF ~WithinCutoff(e.r2, e.cutoff2) THEN KernelSkip(e, p, q, stats, FALSE)
  ELSE IF e.r2 = 0 THEN KernelSkip(e, p, q, stats, TRUE)
  ELSE KernelApply(
         KernelForce(KernelDamping(KernelCoulomb(
           KernelScale(KernelMag(KernelRoot(e), cutoff)), p, q), gamma)),
         p, q, stats)

dvs_calc_force(p, q, cutoff, gamma, stats) ==
  KernelBranch(KernelDist(KernelGeom(p, q, cutoff)),
               p, q, cutoff, gamma, stats)

-----------------------------------------------------------------------------
(* The cell grid (Cells of davis.h).                                       *)

\* Cells_new: mem is the content of the block malloc returned for the heads.
Cells_new(binning, mem) ==
  [dr |-> FDiv(2 * One, binning * One),
   binning |-> binning,
   num_cells |-> binning * binning * binning,
   cells |-> mem]

\* Cells_clear: every head becomes -1.
Cells_clear(self) ==
  [self EXCEPT !.cells = [i \in 0 .. self.num_cells - 1 |-> -1]]

\* The (int) cast of a double that is a whole number within int's range.
CastInt(n) == n

\* One bin index of dvs_populate_cells.
BinOf(coord, dr, L) ==
  Max2(0, Min2(CastInt(Floor(FDiv(FAdd(coord, One), dr))), L - 1))

\* The cell number of dvs_populate_cells.
CellNum(r, self) ==
  LET L == self.binning
      L2 == L * L
  IN  BinOf(r.x, self.dr, L) + BinOf(r.y, self.dr, L) * L
        + BinOf(r.z, self.dr, L) * L2

\* A populate that forgets the old head: each particle ends its list.
LinkTo_forgets(heads, c) == -1

\* The head a particle is linked in front of.
LinkTo(heads, c) == heads[c]

\* The loop of dvs_populate_cells from particle i on; st = [ps, cells].
RECURSIVE PopulateFrom(_, _, _)
PopulateFrom(i, n, st) ==
  IF i >= n THEN st
  ELSE LET c == CellNum(st.ps[i].r, st.cells)
       IN  PopulateFrom(i + 1, n,
             [ps |-> [st.ps EXCEPT ![i].next = LinkTo(st.cells.cells, c)],
              cells |-> [st.cells EXCEPT !.cells[c] = i]])

dvs_populate_cells(nparticles, ps, cells) ==
  PopulateFrom(0, nparticles, [ps |-> ps, cells |-> Cells_clear(cells)])

-----------------------------------------------------------------------------
(* The force sweeps.  The pairs a sweep hands to the kernel depend on the  *)
(* heads and the next fields only, which the kernel never writes, so a     *)
(* sweep is the list of its pairs, in the order of the loops, folded       *)
(* through the kernel.                                                     *)

RECURSIVE Flatten(_)
Flatten(ss) ==
  IF Len(ss) = 0 THEN <<>>
  ELSE IF Len(ss) = 1 THEN ss[1]
  ELSE Flatten(SubSeq(ss, 1, Len(ss) \div 2))
         \o Flatten(SubSeq(ss, Len(ss) \div 2 + 1, Len(ss)))

\* The values of a for loop  for (k = lo; k < hi; k++).
Loop(lo, hi) == [k \in 1 .. Max2(0, hi - lo) |-> lo + k - 1]

\* The particles a list walk  for (i = head; i != -1; i = ps[i].next)  visits.
\* A walk longer than the array has run into a cycle (it never ends), or has
\* left the array: the walk is cut there.
RECURSIVE Walk(_, _, _)
Walk(ps, i, fuel) ==
  IF i = -1 \/ fuel = 0 THEN <<>>
  ELSE IF i \notin DOMAIN ps THEN <<i>>
  ELSE <<i>> \o Walk(ps, ps[i].next, fuel - 1)

ListOf(ps, head) == Walk(ps, head, NumParticles + 1)

WalkEnds(ps, head) ==
  /\ Len(ListOf(ps, head)) <= NumParticles
  /\ \A k \in DOMAIN ListOf(ps, head) : ListOf(ps, head)[k] \in DOMAIN ps

\* A sweep that ignores the end of the caller's range.
OutOfRange_open(this_cell, cell0, cell1) == this_cell < cell0

\* A sweep that ignores the caller's range.
OutOfRange_never(this_cell, cell0, cell1) == FALSE

\* The test that skips a main cell outside the caller's range.
OutOfRange(this_cell, cell0, cell1) ==
  (this_cell < cell0) \/ (this_cell >= cell1)

\* A sweep that takes each pair of cells from both sides.
SkipCellPair_never(this_cell, other_cell) == FALSE

\* The test that takes each pair of cells once.
SkipCellPair(this_cell, other_cell) == this_cell > other_cell

\* The bounds of a neighbour loop, clipped to the grid.
StencilStart(x) == Max2(0, x - 1)
StencilEnd(L, x) == Min2(L, x + 2)

\* The neighbour cells of (x, y, z) in the order of the three inner loops.
NeighbourCells(L, x, y, z) ==
  LET L2 == L * L
      zs == Loop(StencilStart(z), StencilEnd(L, z))
      ys == Loop(StencilStart(y), StencilEnd(L, y))
      xs == Loop(StencilStart(x), StencilEnd(L, x))
  IN  Flatten([a \in DOMAIN zs |->
        Flatten([b \in DOMAIN ys |->
          [c \in DOMAIN xs |-> xs[c] + ys[b] * L + zs[a] * L2]])])

\* The pairs of one main cell with one neighbour cell.
CellPairPairs(ps, cells, this_cell, other_cell) ==
  LET is == ListOf(ps, cells.cells[this_cell])
  IN  IF SkipCellPair(this_cell, other_cell) THEN <<>>
      ELSE IF this_cell = other_cell
      THEN Flatten([a \in DOMAIN is |->
             LET js == ListOf(ps, ps[is[a]].next)
             IN  [b \in DOMAIN js |-> <<is[a], js[b]>>]])
      ELSE LET js == ListOf(ps, cells.cells[other_cell])
           IN  Flatten([a \in DOMAIN is |->
                 [b \in DOMAIN js |-> <<is[a], js[b]>>]])

\* The pairs of one main cell.
MainCellPairs(ps, cells, x, y, z, cell0, cell1) ==
  LET L == cells.binning
      L2 == L * L
      this_cell == x + L * y + L2 * z
      others == NeighbourCells(L, x, y, z)
  IN  IF cells.cells[this_cell] = -1 THEN <<>>
      ELSE IF OutOfRange(this_cell, cell0, cell1) THEN <<>>
      ELSE Flatten([k \in DOMAIN others |->
             CellPairPairs(ps, cells, this_cell, others[k])])

\* The pairs dvs_calc_forces hands to the kernel, in order.
CellPairs(ps, cells, cell0, cell1) ==
  LET L == cells.binning
      ax == Loop(0, L)
  IN  Flatten([c \in DOMAIN ax |->
        Flatten([b \in DOMAIN ax |->
          Flatten([a \in DOMAIN ax |->
            MainCellPairs(ps, cells, ax[a], ax[b], ax[c], cell0, cell1)])])])

\* Whether every list walk of a sweep ends inside the array.
WalksEnd(ps, cells) ==
  \A head \in {cells.cells[c] : c \in DOMAIN cells.cells}
                 \cup {ps[i].next : i \in DOMAIN ps} :
    WalkEnds(ps, head)

\* A brute sweep that skips the first partner.
FirstPartner_skips(i) == i + 2

\* The first partner of particle i in the brute sweep.
FirstPartner(i) == i + 1

\* The pairs dvs_calc_brute_forces hands to the kernel, in order.
BrutePairs(nparticles, first_particle, last_particle) ==
  LET is == Loop(first_particle, last_particle)
  IN  Flatten([a \in DOMAIN is |->
        LET js == Loop(FirstPartner(is[a]), nparticles)
        IN  [b \in DOMAIN js |-> <<is[a], js[b]>>]])

\* One kernel call of a sweep, on particles i and j of the array.
ApplyMerge(st, i, j, k) ==
  [ps |-> [st.ps EXCEPT ![i] = k.p, ![j] = k.q],
   stats |-> k.stats, x |-> st.x \/ k.x, xa |-> st.xa \/ k.xa,
   undef |-> k.undef]

ApplyOne(st, i, j, cutoff, gamma) ==
  ApplyMerge(st, i, j,
             dvs_calc_force(st.ps[i], st.ps[j], cutoff, gamma, st.stats))

\* The kernel applied to the pairs in order; st = [ps, stats, x, xa, undef].
RECURSIVE ApplyPairs(_, _, _, _)
ApplyPairs(st, pairs, cutoff, gamma) ==
  IF pairs = <<>> \/ st.undef THEN st
  ELSE ApplyPairs(ApplyOne(st, Head(pairs)[1], Head(pairs)[2], cutoff, gamma),
                  Tail(pairs), cutoff, gamma)

\* A sweep: the array and the statistics after it (ps, stats), the pairs it
\* handed to the kernel, x and xa: whether an operation rounded, undef:
\* whether a kernel call divided by zero.
SweepOver(ps, stats, pairs, cutoff, gamma) ==
  [pairs |-> pairs] @@
  ApplyPairs([ps |-> ps, stats |-> stats, x |-> FALSE, xa |-> FALSE,
              undef |-> FALSE],
             pairs, cutoff, gamma)

dvs_calc_forces(ps, cells, cell0, cell1, cutoff, gamma, stats) ==
  SweepOver(ps, stats, CellPairs(ps, cells, cell0, cell1), cutoff, gamma)

dvs_calc_brute_forces(nparticles, ps, first_particle, last_particle, cutoff, gamma, stats) ==
  SweepOver(ps, stats,
            BrutePairs(nparticles, first_particle, last_particle),
            cutoff, gamma)

-----------------------------------------------------------------------------
(* The constraint integrator.                                              *)

\* A multiplier that leaves out the projection of r on old_r.
RattleRoot_bare(r0_dot_r, root) == root

\* The multiplier of RATTLE_r: the root of (r + lambda old_r)^2 = 1 taken.
RattleRoot(r0_dot_r, root) == FAdd(-r0_dot_r, root)

\* The steps of one iteration of dvs_advance (dt # 0), one after the other:
\* each takes the values computed so far (e) and adds its own.
AdvHalf(p, dt) ==
  [dt_hlf |-> FMul(One \div 2, dt), x |-> MulX(One \div 2, dt)]

AdvKick(e, p) ==
  [x |-> e.x \/ vec_sclrX(e.dt_hlf, p.a),
   kick |-> vec_sclr(e.dt_hlf, p.a)] @@ e

AdvVel(e, p) ==
  [x |-> e.x \/ vec_addX(p.v, e.kick),
   v1 |-> vec_add(p.v, e.kick)] @@ e

AdvDrift(e, dt) ==
  [x |-> e.x \/ vec_sclrX(dt, e.v1),
   drift |-> vec_sclr(dt, e.v1)] @@ e

AdvPos(e, p) ==
  [x |-> e.x \/ vec_addX(p.r, e.drift),
   r1 |-> vec_add(p.r, e.drift)] @@ e

AdvDots(e, p) ==
  [x |-> e.x \/ vec_dotX(p.r, e.r1) \/ vec_dotX(e.r1, e.r1),
   r0_dot_r |-> vec_dot(p.r, e.r1),
   r0_sqr |-> vec_dot(e.r1, e.r1)] @@ e

AdvTerms(e) ==
  [x |-> e.x \/ SubX(One, e.r0_sqr) \/ MulX(e.r0_dot_r, e.r0_dot_r),
   t1 |-> FSub(One, e.r0_sqr),
   t2 |-> FMul(e.r0_dot_r, e.r0_dot_r)] @@ e

\* The argument of the square root.
AdvDisc(e) ==
  [x |-> e.x \/ AddX(e.t1, e.t2),
   disc |-> FAdd(e.t1, e.t2)] @@ e

AdvSqrt(e) ==
  [x |-> e.x \/ SqrtX(e.disc),
   root |-> FSqrt(e.disc)] @@ e

AdvLambda(e) ==
  [x |-> e.x \/ AddX(-e.r0_dot_r, e.root),
   lambda |-> RattleRoot(e.r0_dot_r, e.root)] @@ e

AdvShift(e, p, dt) ==
  [x |-> e.x \/ vec_sclrX(e.lambda, p.r) \/ DivX(e.lambda, dt),
   shift |-> vec_sclr(e.lambda, p.r),
   lam_dt |-> FDiv(e.lambda, dt)] @@ e

AdvVShift(e, p) ==
  [x |-> e.x \/ vec_sclrX(e.lam_dt, p.r),
   vshift |-> vec_sclr(e.lam_dt, p.r)] @@ e

AdvApply(e, p) ==
  [x |-> e.x \/ vec_addX(e.r1, e.shift) \/ vec_addX(e.v1, e.vshift),
   p |-> [p EXCEPT !.r = vec_add(e.r1, e.shift),
                   !.v = vec_add(e.v1, e.vshift),
                   !.a = VEC_ZERO],
   undef |-> FALSE]

\* undef: the argument of sqrt is negative (the position becomes NaN).
AdvBranch(e, p, dt) ==
  IF e.disc < 0 THEN [p |-> p, x |-> e.x, undef |-> TRUE]
  ELSE AdvApply(AdvVShift(AdvShift(AdvLambda(AdvSqrt(e)), p, dt), p), p)

\* The discriminant dvs_advance computes for particle p.
AdvUpToDisc(p, dt) ==
  AdvDisc(AdvTerms(AdvDots(AdvPos(AdvDrift(AdvVel(AdvKick(
    AdvHalf(p, dt), p), p), dt), p), p)))

AdvanceOne(p, dt) == AdvBranch(AdvUpToDisc(p, dt), p, dt)

AdvanceMerge(i, st, one) ==
  [ps |-> [st.ps EXCEPT ![i] = one.p],
   x |-> st.x \/ one.x, undef |-> st.undef \/ one.undef]

AdvanceStep(i, st, dt) ==
  AdvanceMerge(i, st, AdvanceOne(st.ps[i], dt))

\* The loop of dvs_advance from particle i on; st = [ps, x, undef].
RECURSIVE AdvanceFrom(_, _, _, _)
AdvanceFrom(i, n, st, dt) ==
  IF i >= n THEN st
  ELSE AdvanceFrom(i + 1, n, AdvanceStep(i, st, dt), dt)

dvs_advance(nparticles, ps, dt) ==
  AdvanceFrom(0, nparticles, [ps |-> ps, x |-> FALSE, undef |-> FALSE], dt)

\* A multiplier of the wrong sign.
RattleV_plus(v, r) == vec_dot(v, r)

\* The multiplier of RATTLE_v.
RattleV(v, r) == -vec_dot(v, r)

\* The steps of one iteration of dvs_correct.
CorKick(p, dt) ==
  [kick |-> vec_sclr(FMul(One \div 2, dt), p.a),
   x |-> MulX(One \div 2, dt) \/ vec_sclrX(FMul(One \div 2, dt), p.a)]

CorVel(e, p) ==
  [x |-> e.x \/ vec_addX(p.v, e.kick),
   v1 |-> vec_add(p.v, e.kick)] @@ e

CorLambda(e, p) ==
  [x |-> e.x \/ vec_dotX(e.v1, p.r),
   lambda |-> RattleV(e.v1, p.r)] @@ e

CorShift(e, p) ==
  [x |-> e.x \/ vec_sclrX(e.lambda, p.r),
   shift |-> vec_sclr(e.lambda, p.r)] @@ e

CorApply(e, p) ==
  [x |-> e.x \/ vec_addX(e.v1, e.shift),
   p |-> [p EXCEPT !.v = vec_add(e.v1, e.shift)]]

CorrectOne(p, dt) ==
  CorApply(CorShift(CorLambda(CorVel(CorKick(p, dt), p), p), p), p)

CorrectMerge(i, st, one) ==
  [ps |-> [st.ps EXCEPT ![i] = one.p], x |-> st.x \/ one.x]

CorrectStep(i, st, dt) == CorrectMerge(i, st, CorrectOne(st.ps[i], dt))

RECURSIVE CorrectFrom(_, _, _, _)
CorrectFrom(i, n, st, dt) ==
  IF i >= n THEN st
  ELSE CorrectFrom(i + 1, n, CorrectStep(i, st, dt), dt)

dvs_correct(nparticles, ps, dt) ==
  CorrectFrom(0, nparticles, [ps |-> ps, x |-> FALSE], dt)

-----------------------------------------------------------------------------
(* The array utilities.                                                    *)

\* A copy that leaves the buffer as it was.
dvs_copy_particles_none(nparticles, src, dst) == dst

\* dvs_copy_particles: memcpy of nparticles records.
dvs_copy_particles(nparticles, src, dst) ==
  [i \in DOMAIN dst |-> IF i < nparticles THEN src[i] ELSE dst[i]]

\* dvs_collect_forces: accu[i].a += part[i].a.
dvs_collect_forces(nparticles, accu, part) ==
  [ps |-> [i \in DOMAIN accu |->
             IF i < nparticles
             THEN [accu[i] EXCEPT !.a = vec_add(accu[i].a, part[i].a)]
             ELSE accu[i]],
   x |-> \E i \in DOMAIN accu :
           i < nparticles /\ vec_addX(accu[i].a, part[i].a)]

-----------------------------------------------------------------------------
(* The state: the particle arrays of the outer layer (array 0 is the       *)
(* authoritative one, arrays 1..NumParts are the partition buffers), the   *)
(* one cell grid, one Stats per array, and the parameters of the run.      *)

VARIABLES
  ps,       \* ps[b][i]: particle i of array b
  cells,    \* the Cells object
  stats,    \* stats[b]: the Stats handed over with array b
  par,      \* [cutoff, gamma, dt]: the parameters the outer layer passes
  pc,       \* where the outer layer is in its time step: pc.main for the
            \* authoritative array, pc.part[k] for partition buffer k
  rounded,  \* the sticky inexact flags: whether an operation rounded in the
            \* integrator (integ), in the evaluation of a pair's force
            \* (force), in an addition to an acceleration or E_pot (accum)
  log,      \* log[b]: the sweeps that built the accelerations of array b
  last      \* the last call: its name, arguments and the state before it

vars == <<ps, cells, stats, par, pc, rounded, log, last>>

Bufs == 0 .. NumParts
Parts == 1 .. NumParts

NoCall ==
  [op |-> "none", b |-> 0, lo |-> 0, hi |-> 0, pairs |-> <<>>,
   pre |-> <<>>, prestats |-> ZeroStats, precells |-> <<>>]

Call(op, b, lo, hi, pairs) ==
  [op |-> op, b |-> b, lo |-> lo, hi |-> hi, pairs |-> pairs,
   pre |-> ps[b], prestats |-> stats[b], precells |-> cells.cells]

\* Whether every acceleration of an array is zero.
ZeroA(arr) == \A i \in PIdx : arr[i].a = VEC_ZERO

\* A quarter, and a point given in quarters.
Quarter == One \div 4
Pt(a, b, c) == Vec(a * Quarter, b * Quarter, c * Quarter)

\* The state the outer layer constructs: the arrays (every buffer a copy of
\* the authoritative array, accelerations zero, lists empty), the grid
\* (Cells_new, then Cells_clear) and zeroed Stats.
Constructed(rs, vs, L, cutoff, gamma, dt) ==
  /\ ps = [b \in Bufs |->
             [i \in PIdx |-> Particle(rs[i], vs[i], VEC_ZERO, -1)]]
  /\ cells = Cells_clear(Cells_new(L, <<>>))
  /\ stats = [b \in Bufs |-> ZeroStats]
  /\ par = [cutoff |-> cutoff, gamma |-> gamma, dt |-> dt]
  /\ pc = [main |-> "start",
           part |-> [k \in Parts |-> [at |-> "idle", early |-> FALSE]]]
  /\ rounded = [integ |-> FALSE, force |-> FALSE, accum |-> FALSE]
  /\ log = [b \in Bufs |-> <<>>]
  /\ last = NoCall

-----------------------------------------------------------------------------
(* The calls of the interface.                                             *)

populate_cells ==
  LET st == dvs_populate_cells(NumParticles, ps[0], cells)
  IN  /\ ps' = [ps EXCEPT ![0] = st.ps]
      /\ cells' = st.cells
      /\ last' = Call("populate_cells", 0, 0, 0, <<>>)
      /\ UNCHANGED <<stats, par, rounded, log>>

\* dvs_advance on the authoritative array.  The call is left out when the
\* argument of a square root is negative (the positions become NaN).
advance ==
  LET res == dvs_advance(NumParticles, ps[0], par.dt)
  IN  /\ ~res.undef
      /\ ps' = [ps EXCEPT ![0] = res.ps]
      /\ rounded' = [rounded EXCEPT !.integ = @ \/ res.x]
      /\ log' = [log EXCEPT ![0] = <<>>]
      /\ last' = Call("advance", 0, 0, 0, <<>>)
      /\ UNCHANGED <<cells, stats, par>>

\* dvs_correct on the authoritative array.
correct ==
  LET res == dvs_correct(NumParticles, ps[0], par.dt)
  IN  /\ ps' = [ps EXCEPT ![0] = res.ps]
      /\ rounded' = [rounded EXCEPT !.integ = @ \/ res.x]
      /\ last' = Call("correct", 0, 0, 0, <<>>)
      /\ UNCHANGED <<cells, stats, par, log>>

\* dvs_copy_particles from the authoritative array into buffer k.
copy_particles(k) ==
  /\ ps' = [ps EXCEPT ![k] = dvs_copy_particles(NumParticles, ps[0], ps[k])]
  /\ log' = [log EXCEPT ![k] = log[0]]
  /\ last' = Call("copy_particles", k, 0, 0, <<>>)
  /\ UNCHANGED <<cells, stats, par, rounded>>

\* dvs_collect_forces of buffer k into the authoritative array.
collect_forces(k) ==
  LET res == dvs_collect_forces(NumParticles, ps[0], ps[k])
  IN  /\ ps' = [ps EXCEPT ![0] = res.ps]
      /\ rounded' = [rounded EXCEPT !.accum = @ \/ res.x]
      /\ log' = [log EXCEPT ![0] = log[0] \o log[k]]
      /\ last' = Call("collect_forces", k, 0, 0, <<>>)
      /\ UNCHANGED <<cells, stats, par>>

calc_forces(b, cell0, cell1) ==
  LET res == dvs_calc_forces(ps[b], cells, cell0, cell1,
                             par.cutoff, par.gamma, stats[b])
      pairs == res.pairs
  IN  /\ Len(log[b]) < MaxCalls
      /\ WalksEnd(ps[b], cells)
      /\ ~res.undef
      /\ ps' = [ps EXCEPT ![b] = res.ps]
      /\ stats' = [stats EXCEPT ![b] = res.stats]
      /\ rounded' = [rounded EXCEPT !.force = @ \/ res.x,
                                     !.accum = @ \/ res.xa]
      /\ log' = [log EXCEPT ![b] = Append(@,
                   [op |-> "calc_forces", lo |-> cell0, hi |-> cell1,
                    pairs |-> pairs, zero |-> ZeroA(ps[b])])]
      /\ last' = Call("calc_forces", b, cell0, cell1, pairs)
      /\ UNCHANGED <<cells, par>>

calc_brute_forces(b, first_particle, last_particle) ==
  LET res == dvs_calc_brute_forces(NumParticles, ps[b], first_particle,
               last_particle, par.cutoff, par.gamma, stats[b])
      pairs == res.pairs
  IN  /\ Len(log[b]) < MaxCalls
      /\ ~res.undef
      /\ ps' = [ps EXCEPT ![b] = res.ps]
      /\ stats' = [stats EXCEPT ![b] = res.stats]
      /\ rounded' = [rounded EXCEPT !.force = @ \/ res.x,
                                     !.accum = @ \/ res.xa]
      /\ log' = [log EXCEPT ![b] = Append(@,
                   [op |-> "calc_brute_forces", lo |-> first_particle,
                    hi |-> last_particle, pairs |-> pairs,
                    zero |-> ZeroA(ps[b])])]
      /\ last' = Call("calc_brute_forces", b, first_particle, last_particle,
                      pairs)
      /\ UNCHANGED <<cells, par>>

-----------------------------------------------------------------------------
(* Sweeps over one array: the grid is populated from the authoritative     *)
(* array and swept, by cells or brute, over ranges the caller chooses.     *)

\* Largest binning.
MaxL == 5

\* A point given in sixty-fourths.
Fine(a, b, c) == Vec(a * (One \div 64), b * (One \div 64), c * (One \div 64))

\* Positions: on the sphere, inside it, on the faces of the box, outside it
\* and next to the cell faces of a grid of five cells a side.
GridPts ==
  << Pt(4, 0, 0), Pt(3, 1, 0), Pt(0, 0, 0), Pt(-1, 0, -1),
     Pt(-4, 0, 0), Pt(2, 3, 0), Fine(13, 0, 0), Fine(38, 0, 0),
     Pt(5, -1, -5) >>

\* Particle i is put at point  start + i * stride  of the list.
Layout(pts, start, stride) ==
  [i \in PIdx |-> pts[((start + i * stride) % Len(pts)) + 1]]

Still == [i \in PIdx |-> VEC_ZERO]
Moving == [i \in PIdx |-> Pt(i % 2, ((i + 1) % 3) - 1, 0)]

\* The ends of the cell ranges and of the particle ranges the caller passes.
CellCuts == {0, cells.num_cells \div 2, cells.num_cells}
CellRanges ==
  {<<0, 0>>} \cup {c \in CellCuts \X CellCuts : c[1] < c[2]}
ParticleCuts == {0, 1, NumParticles}
ParticleRanges == {c \in ParticleCuts \X ParticleCuts : c[1] < c[2]}

\* The layouts the sweeps start from: one moving and one at rest, with the
\* strides 2 and 1 through the list of positions.
SweepStarts == {1, 6}

\* The cutoff is the cell width or the radius of the sphere, alternating
\* over the layouts and the binnings.
Init ==
  \E start \in SweepStarts, L \in 1 .. MaxL :
    \E cutoff \in {IF (start + L) % 2 = 1 THEN Cells_new(L, <<>>).dr ELSE One} :
      Constructed(Layout(GridPts, start, 1 + (start % 2)),
                  IF start % 3 = 0 THEN Still ELSE Moving,
                  L, cutoff, IF start % 3 = 0 THEN 0 ELSE One, One)

Next ==
  \/ populate_cells /\ UNCHANGED pc
  \/ \E c \in CellRanges : calc_forces(0, c[1], c[2]) /\ UNCHANGED pc
  \/ \E c \in ParticleRanges :
       calc_brute_forces(0, c[1], c[2]) /\ UNCHANGED pc

Spec == Init /\ [][Next]_vars

-----------------------------------------------------------------------------
(* One time step of the integrator on the authoritative array: forces may  *)
(* be computed before dvs_advance and after it, dvs_correct ends the step. *)

\* A particle of the initial state: its position and its velocity.
Body(r, v) == [r |-> r, v |-> v]

\* Positions on the unit sphere (the six axis points), one inside it.
Bodies ==
  << Body(Pt(4, 0, 0), Pt(0, 4, 0)),  Body(Pt(0, 4, 0), Pt(0, 0, 0)),
     Body(Pt(0, 0, -4), Pt(1, 0, 2)), Body(Pt(-4, 0, 0), Pt(0, 0, 2)),
     Body(Pt(0, -4, 0), Pt(2, 2, 0)), Body(Pt(0, 0, 4), Pt(0, 8, 0)),
     Body(Pt(3, 0, 0), Pt(0, 1, 0)) >>

InitInteg ==
  \E start \in 0 .. Len(Bodies) - 1, stride \in 1 .. 2,
     dt \in {One, One \div 2}, gamma \in {0, One},
     cutoff \in {One, 2 * One} :
    Constructed([i \in PIdx |-> Layout(Bodies, start, stride)[i].r],
                [i \in PIdx |-> Layout(Bodies, start, stride)[i].v],
                1, cutoff, gamma, dt)

IntegForces ==
  /\ pc.main \in {"start", "advanced"}
  /\ calc_brute_forces(0, 0, NumParticles)
  /\ UNCHANGED pc

IntegAdvance ==
  /\ pc.main = "start"
  /\ advance
  /\ pc' = [pc EXCEPT !.main = "advanced"]

IntegCorrect ==
  /\ pc.main \in {"start", "advanced"}
  /\ correct
  /\ pc' = [pc EXCEPT !.main = "done"]

NextInteg == IntegForces \/ IntegAdvance \/ IntegCorrect

SpecInteg == InitInteg /\ [][NextInteg]_vars

-----------------------------------------------------------------------------
(* One time step of the outer layer with partition buffers: forces on the  *)
(* authoritative array before the step, dvs_advance, dvs_populate_cells,   *)
(* and for every buffer dvs_copy_particles (before dvs_advance or after    *)
(* dvs_populate_cells), one force sweep and dvs_collect_forces;            *)
(* dvs_correct ends the step.                                              *)

\* The layouts the step is run on, each with its binning.
FlowStarts == {<<0, 3>>, <<3, 3>>, <<6, 2>>}

InitFlow ==
  \E s \in FlowStarts :
    Constructed(Layout(GridPts, s[1], 1 + (s[1] % 2)),
                IF s[1] = 3 THEN Moving ELSE Still,
                s[2], Cells_new(s[2], <<>>).dr, IF s[1] = 3 THEN One ELSE 0,
                One \div 4)

\* The cell ranges a buffer is swept over: the two halves of the cells.
FlowRanges ==
  {c \in CellRanges : c[1] < c[2] /\ c[2] - c[1] < cells.num_cells}

At(k, at) == pc.part[k].at = at
Goes(k, at, early) ==
  pc' = [pc EXCEPT !.part[k] = [at |-> at, early |-> early]]

FlowFirstForces ==
  /\ pc.main = "start"
  /\ log[0] = <<>>
  /\ calc_brute_forces(0, 0, NumParticles)
  /\ UNCHANGED pc

FlowCopyEarly(k) ==
  /\ pc.main = "start"
  /\ At(k, "idle")
  /\ copy_particles(k)
  /\ Goes(k, "copied", TRUE)

FlowAdvance ==
  /\ pc.main = "start"
  /\ advance
  /\ pc' = [pc EXCEPT !.main = "advanced"]

FlowPopulate ==
  /\ pc.main = "advanced"
  /\ populate_cells
  /\ pc' = [pc EXCEPT !.main = "populated"]

FlowCopyLate(k) ==
  /\ pc.main = "populated"
  /\ At(k, "idle")
  /\ copy_particles(k)
  /\ Goes(k, "copied", FALSE)

FlowSweep(k, cell0, cell1) ==
  /\ pc.main = "populated"
  /\ At(k, "copied")
  /\ calc_forces(k, cell0, cell1)
  /\ Goes(k, "swept", pc.part[k].early)

FlowBrute(k, first_particle, last_particle) ==
  /\ pc.main = "populated"
  /\ At(k, "copied")
  /\ calc_brute_forces(k, first_particle, last_particle)
  /\ Goes(k, "swept", pc.part[k].early)

FlowCollect(k) ==
  /\ pc.main = "populated"
  /\ At(k, "swept")
  /\ collect_forces(k)
  /\ Goes(k, "collected", pc.part[k].early)

FlowCorrect ==
  /\ pc.main = "populated"
  /\ \A k \in Parts : At(k, "collected")
  /\ correct
  /\ pc' = [pc EXCEPT !.main = "done"]

NextFlow ==
  \/ FlowFirstForces
  \/ FlowAdvance
  \/ FlowPopulate
  \/ FlowCorrect
  \/ \E k \in Parts :
       \/ FlowCopyEarly(k)
       \/ FlowCopyLate(k)
       \/ FlowCollect(k)
       \/ \E c \in FlowRanges : FlowSweep(k, c[1], c[2])
       \/ \E c \in {<<0, NumParticles>>} : FlowBrute(k, c[1], c[2])

SpecFlow == InitFlow /\ [][NextFlow]_vars

-----------------------------------------------------------------------------
(* Notions the properties are stated with.                                 *)

Range(seq) == {seq[k] : k \in DOMAIN seq}
Count(seq, e) == Cardinality({k \in DOMAIN seq : seq[k] = e})

\* The particles met by walking the list of every cell, one cell after the
\* other.
AllWalked(arr, cls) ==
  Flatten([k \in 1 .. cls.num_cells |-> ListOf(arr, cls.cells[k - 1])])

\* How often a sweep handed the unordered pair {i, j} to the kernel.
Handed(pairs, i, j) == Count(pairs, <<i, j>>) + Count(pairs, <<j, i>>)

\* The cells whose list holds particle i.
CellsOf(arr, cls, i) ==
  {c \in DOMAIN cls.cells : i \in Range(ListOf(arr, cls.cells[c]))}

\* Whether two cells are the same or neighbours in the 27-cell stencil.
Adjacent(L, c, d) ==
  /\ Abs((c % L) - (d % L)) <= 1
  /\ Abs(((c \div L) % L) - ((d \div L) % L)) <= 1
  /\ Abs((c \div (L * L)) - (d \div (L * L))) <= 1

\* Whether the kernel finds particles i and j of an array within the cutoff.
Near(arr, i, j, cutoff) ==
  WithinCutoff(vec_magnitude2(vec_sub(arr[i].r, arr[j].r)),
               FMul(cutoff, cutoff))

\* The unordered pairs among the pairs of a sweep that are within the cutoff.
NearSet(arr, pairs, cutoff) ==
  {{pr[1], pr[2]} : pr \in {q \in Range(pairs) : Near(arr, q[1], q[2], cutoff)}}

\* Whether the heads and the next fields are what dvs_populate_cells builds
\* from the positions of the array.
Fresh(arr) ==
  LET st == dvs_populate_cells(NumParticles, arr, cells)
  IN  /\ st.cells.cells = cells.cells
      /\ \A i \in PIdx : st.ps[i].next = arr[i].next

\* Whether two arrays agree in every field but the accelerations.
SameButA(arr, brr) ==
  \A i \in PIdx : /\ arr[i].r = brr[i].r
                  /\ arr[i].v = brr[i].v
                  /\ arr[i].next = brr[i].next

SameA(arr, brr) == \A i \in PIdx : arr[i].a = brr[i].a

\* Whether the ranges of the calls of a log tile [0, n) without overlap.
Tiles(calls, n) ==
  /\ \A k \in DOMAIN calls : 0 <= calls[k].lo /\ calls[k].lo <= calls[k].hi
                             /\ calls[k].hi <= n
  /\ \A i \in 0 .. n - 1 :
       Cardinality({k \in DOMAIN calls :
                      calls[k].lo <= i /\ i < calls[k].hi}) = 1

-----------------------------------------------------------------------------
\* C1: after dvs_populate_cells every head and every next is -1 or a particle
\* index, every list walk ends, and walking the lists of all cells visits
\* each particle exactly once.
C1_PopulatePartitions ==
  last.op = "populate_cells" =>
    /\ \A c \in DOMAIN cells.cells : cells.cells[c] \in {-1} \cup PIdx
    /\ \A i \in PIdx : ps[0][i].next \in {-1} \cup PIdx
    /\ \A c \in DOMAIN cells.cells : WalkEnds(ps[0], cells.cells[c])
    /\ DOMAIN cells.cells = 0 .. cells.binning * cells.binning * cells.binning - 1
    /\ Len(AllWalked(ps[0], cells)) = NumParticles
    /\ \A i \in PIdx : Count(AllWalked(ps[0], cells), i) = 1

\* C1 witness: a populated grid with a list of two particles or more and
\* particles in more than one cell.
C1_Witness ==
  /\ last.op = "populate_cells"
  /\ \E c \in DOMAIN cells.cells : Len(ListOf(ps[0], cells.cells[c])) >= 2
  /\ Cardinality({c \in DOMAIN cells.cells : cells.cells[c] # -1}) >= 2

\* C5: a brute sweep over [first, last) hands exactly the pairs (i, j) with
\* first <= i < last and i < j < N to the kernel, each once, and counts each
\* in ww_counter; when the brute sweeps made on an array tile [0, N), each
\* unordered pair of distinct particles was handed over exactly once and
\* ww_counter is N (N - 1) / 2.
C5_BrutePairs ==
  /\ last.op = "calc_brute_forces" =>
       /\ Range(last.pairs) =
            {pr \in PIdx \X PIdx :
               last.lo <= pr[1] /\ pr[1] < last.hi /\ pr[1] < pr[2]}
       /\ Len(last.pairs) = Cardinality(Range(last.pairs))
       /\ stats[last.b].ww_counter =
            last.prestats.ww_counter + Len(last.pairs)
  /\ \A b \in Bufs :
       (/\ log[b] # <<>>
        /\ \A k \in DOMAIN log[b] : log[b][k].op = "calc_brute_forces"
        /\ Tiles(log[b], NumParticles)) =>
         /\ \A i, j \in PIdx :
              i # j => Handed(Flatten([k \in DOMAIN log[b] |->
                                         log[b][k].pairs]), i, j) = 1
         /\ 2 * stats[b].ww_counter = NumParticles * (NumParticles - 1)

\* C5 witness: two brute sweeps, over [0, m) and [m, N), have been made.
C5_Witness ==
  /\ Len(log[0]) = 2
  /\ \A k \in DOMAIN log[0] : log[0][k].op = "calc_brute_forces"
                              /\ log[0][k].lo < log[0][k].hi
  /\ Tiles(log[0], NumParticles)

\* C6: a cell sweep never hands a particle paired with itself to the kernel
\* and hands no unordered pair over twice; two distinct particles in the same
\* cell or in neighbouring cells are handed over exactly once when the
\* smaller of their two cell numbers lies in [cell0, cell1), whatever the
\* cutoff is.
C6_CellPairsOnce ==
  (last.op = "calc_forces" /\ Fresh(last.pre)) =>
    /\ \A k \in DOMAIN last.pairs : last.pairs[k][1] # last.pairs[k][2]
    /\ \A i, j \in PIdx : Handed(last.pairs, i, j) <= 1
    /\ \A i, j \in PIdx : \A c \in CellsOf(last.pre, cells, i) :
         \A d \in CellsOf(last.pre, cells, j) :
           (/\ i # j
            /\ Adjacent(cells.binning, c, d)
            /\ last.lo <= Min2(c, d)
            /\ Min2(c, d) < last.hi) => Handed(last.pairs, i, j) = 1

\* C6 witness: a sweep over a part of a populated grid that handed over a
\* pair from one cell and a pair from two neighbouring cells.
C6_Witness ==
  /\ last.op = "calc_forces"
  /\ Fresh(last.pre)
  /\ last.hi - last.lo < cells.num_cells
  /\ \E k \in DOMAIN last.pairs :
       CellsOf(last.pre, cells, last.pairs[k][1]) =
         CellsOf(last.pre, cells, last.pairs[k][2])
  /\ \E k \in DOMAIN last.pairs :
       CellsOf(last.pre, cells, last.pairs[k][1]) #
         CellsOf(last.pre, cells, last.pairs[k][2])

\* Whether the cells cell0 .. cell1 - 1 of the grid are all empty.
AllEmpty(cls, cell0, cell1) ==
  \A c \in DOMAIN cls.cells : (cell0 <= c /\ c < cell1) => cls.cells[c] = -1

\* C10: a force sweep leaves positions, velocities, next fields and cell
\* heads as they were; it changes accelerations and Stats only.  A cell sweep
\* whose range is empty, or whose cells are all empty, changes nothing.
C10_SweepFrame ==
  last.op \in {"calc_forces", "calc_brute_forces"} =>
    /\ cells.cells = last.precells
    /\ SameButA(ps[last.b], last.pre)
    /\ (last.op = "calc_forces"
        /\ (last.lo >= last.hi \/ AllEmpty(cells, last.lo, last.hi))) =>
         /\ ps[last.b] = last.pre
         /\ stats[last.b] = last.prestats

\* C10 witness: a cell sweep over a range of empty cells of a grid that
\* holds particles elsewhere, after a sweep that changed accelerations.
C10_Witness ==
  /\ last.op = "calc_forces"
  /\ last.lo < last.hi
  /\ AllEmpty(cells, last.lo, last.hi)
  /\ \E c \in DOMAIN cells.cells : cells.cells[c] # -1
  /\ \E i \in PIdx : ps[0][i].a # VEC_ZERO

\* The brute sweep over all particles from the state before the last call.
BruteBefore ==
  dvs_calc_brute_forces(NumParticles, last.pre, 0, NumParticles,
                        par.cutoff, par.gamma, last.prestats)

\* Whether the last call is a cell sweep over the whole of a freshly
\* populated grid whose cell edge is at least the cutoff.
WholeFreshSweep ==
  /\ last.op = "calc_forces"
  /\ last.lo = 0
  /\ last.hi = cells.num_cells
  /\ Fresh(last.pre)
  /\ cells.dr >= par.cutoff
  /\ ~BruteBefore.undef

\* C2: with a cell edge of at least the cutoff, the cell sweep over the whole
\* of a freshly populated grid applies the kernel to the same pairs within
\* the cutoff as the brute sweep over all particles, each once, and leaves
\* the same real_ww_counter.
C2_CellSweepIsBruteSweep ==
  WholeFreshSweep =>
    /\ NearSet(last.pre, last.pairs, par.cutoff) =
         NearSet(last.pre, BruteBefore.pairs, par.cutoff)
    /\ \A i, j \in PIdx : Handed(last.pairs, i, j) <= 1
    /\ stats[last.b].real_ww_counter = BruteBefore.stats.real_ww_counter

\* C2 witness: such a sweep never handed the kernel a pair that the brute
\* sweep finds within the cutoff: the two particles were put in cells that
\* are no neighbours.
C2_MissedPair ==
  /\ WholeFreshSweep
  /\ \E i, j \in PIdx :
       /\ i < j
       /\ Near(last.pre, i, j, par.cutoff)
       /\ Handed(last.pairs, i, j) = 0
       /\ \A c \in CellsOf(last.pre, cells, i) :
            \A d \in CellsOf(last.pre, cells, j) :
              ~Adjacent(cells.binning, c, d)
  /\ stats[last.b].real_ww_counter < BruteBefore.stats.real_ww_counter

\* Whether a position lies on the unit sphere: |r| = 1.
OnSphere(r) == Dot(r, r) = One * One

\* C7: dvs_correct changes velocities only, and after it the velocity of
\* every particle whose position has |r| = 1 is tangent to the sphere:
\* r . v = 0, whatever the velocity, the acceleration and dt were.
C7_CorrectTangent ==
  last.op = "correct" =>
    \A i \in PIdx :
      /\ ps[0][i].r = last.pre[i].r
      /\ ps[0][i].a = last.pre[i].a
      /\ ps[0][i].next = last.pre[i].next
      /\ OnSphere(ps[0][i].r) => Dot(ps[0][i].r, ps[0][i].v) = 0

\* C7 witness: dvs_correct on a particle on the sphere that had an
\* acceleration and a velocity with a radial part, in a call that rounded.
C7_Witness ==
  /\ last.op = "correct"
  /\ \E i \in PIdx : /\ OnSphere(ps[0][i].r)
                     /\ last.pre[i].a # VEC_ZERO
                     /\ Dot(last.pre[i].r, last.pre[i].v) # 0
                     /\ ps[0][i].v # VEC_ZERO
  /\ rounded.integ

\* Whether dvs_advance takes particle p (given as it was before the call)
\* from the sphere with a square root of a non-negative number.
AdvanceFromSphere(p) ==
  OnSphere(p.r) /\ AdvUpToDisc(p, par.dt).disc >= 0

\* C8 as stated: after dvs_advance every particle that started with |r| = 1
\* and a non-negative discriminant has |r| = 1 and a zero acceleration.
C8_OnSphere ==
  last.op = "advance" =>
    \A i \in PIdx :
      AdvanceFromSphere(last.pre[i]) =>
        OnSphere(ps[0][i].r) /\ ps[0][i].a = VEC_ZERO

\* C8: after dvs_advance every acceleration is zero, and a particle that
\* started with |r| = 1 and a non-negative discriminant has |r| = 1 when no
\* operation of its update rounded.
C8_OnSphereUnlessRounded ==
  last.op = "advance" =>
    \A i \in PIdx :
      /\ ps[0][i].a = VEC_ZERO
      /\ (AdvanceFromSphere(last.pre[i])
          /\ ~AdvanceOne(last.pre[i], par.dt).x) => OnSphere(ps[0][i].r)

\* C8 witness: dvs_advance moved a particle from one point of the sphere to
\* another without rounding, and zeroed an acceleration.
C8_Witness ==
  /\ last.op = "advance"
  /\ \E i \in PIdx : /\ AdvanceFromSphere(last.pre[i])
                     /\ ~AdvanceOne(last.pre[i], par.dt).x
                     /\ ps[0][i].r # last.pre[i].r
                     /\ OnSphere(ps[0][i].r)
  /\ \E i \in PIdx : last.pre[i].a # VEC_ZERO

\* The array with its accelerations set to zero.
Zeroed(arr) == [i \in PIdx |-> [arr[i] EXCEPT !.a = VEC_ZERO]]

\* The cell sweep over the whole grid on the authoritative array, from zero
\* accelerations.
FullSweep ==
  dvs_calc_forces(Zeroed(ps[0]), cells, 0, cells.num_cells,
                  par.cutoff, par.gamma, ZeroStats)

\* The last sweep of every buffer, and the pairs of these sweeps.
PartCalls == [k \in Parts |-> log[k][Len(log[k])]]
PartPairs == Flatten([k \in Parts |-> PartCalls[k].pairs])

\* Whether every buffer made a cell sweep and was collected, the ranges of
\* the sweeps tiling the cells of the grid.
AllCollected ==
  /\ pc.main = "populated"
  /\ \A k \in Parts : At(k, "collected") /\ log[k] # <<>>
  /\ \A k \in Parts : PartCalls[k].op = "calc_forces"
  /\ Tiles(PartCalls, cells.num_cells)

\* Whether the sweeps of the buffers ran, one per range of a partition of
\* the cells, on the populated array of the authoritative state from zero
\* accelerations, and were summed into zero accelerations.
Partitioned ==
  /\ AllCollected
  /\ Len(log[0]) = NumParts
  /\ \A k \in Parts : /\ Len(log[k]) = 1
                      /\ log[k][1].zero
                      /\ SameButA(ps[k], ps[0])

\* Whether the sweeps of a partition handed over the pairs of the sweep
\* over the whole grid, each by one sweep only.
PairsPartitioned ==
  /\ \A i, j \in PIdx : Handed(PartPairs, i, j) <= 1
  /\ \A i, j \in PIdx :
       Count(PartPairs, <<i, j>>) = Count(FullSweep.pairs, <<i, j>>)

\* C3 as stated: the accelerations of cell sweeps over the ranges of a
\* partition of the cells, each from zero accelerations on the same
\* populated array, sum exactly to the accelerations of one sweep over the
\* whole grid, and the ranges hand over disjoint sets of pairs whose union
\* is the set of the whole sweep.
C3_ExactSum ==
  Partitioned => PairsPartitioned /\ SameA(ps[0], FullSweep.ps)

\* C3: the cell sweeps over the ranges of a partition of the cells hand over
\* disjoint sets of pairs whose union is the set of the sweep over the whole
\* grid; their accelerations, each from zero, sum to those of the whole
\* sweep when no addition to an acceleration rounded.
C3_SumUnlessRounded ==
  Partitioned =>
    /\ PairsPartitioned
    /\ (~rounded.accum /\ ~FullSweep.xa) => SameA(ps[0], FullSweep.ps)

\* C3 witness: the sweeps of a partition, each with a pair within the
\* cutoff, summed without rounding.
C3_Witness ==
  /\ Partitioned
  /\ ~rounded.accum /\ ~FullSweep.xa
  /\ \A k \in Parts : \E i \in PIdx : ps[k][i].a # VEC_ZERO
  /\ \E i \in PIdx : ps[0][i].a # VEC_ZERO

RECURSIVE TotalUpTo(_, _)
TotalUpTo(arr, n) ==
  IF n = 0 THEN VEC_ZERO ELSE VSum(TotalUpTo(arr, n - 1), arr[n - 1].a)
TotalA(arr) == TotalUpTo(arr, NumParticles)

\* C9 as stated: a force sweep leaves the sum of the accelerations of its
\* array as it was, and the sum is zero in every array, whose accelerations
\* are built from zero by force sweeps, copies and merges.
C9_TotalZero ==
  /\ last.op \in {"calc_forces", "calc_brute_forces"} =>
       TotalA(ps[last.b]) = TotalA(last.pre)
  /\ \A b \in Bufs : TotalA(ps[b]) = VEC_ZERO

\* C9: when no addition to an acceleration rounded, a force sweep leaves
\* the sum of the accelerations of its array as it was, and the sum is zero
\* in every array, whatever the cutoff and gamma are.
C9_TotalZeroUnlessRounded ==
  ~rounded.accum =>
    /\ last.op \in {"calc_forces", "calc_brute_forces"} =>
         TotalA(ps[last.b]) = TotalA(last.pre)
    /\ \A b \in Bufs : TotalA(ps[b]) = VEC_ZERO

\* C9 witness: forces that were rounded have been added to accelerations
\* and merged into the authoritative array without rounding.
C9_Witness ==
  /\ ~rounded.accum
  /\ rounded.force
  /\ last.op = "collect_forces"
  /\ \E i \in PIdx : ps[last.b][i].a # VEC_ZERO
  /\ \E i \in PIdx : last.pre[i].a # VEC_ZERO

=============================================================================
